---- MODULE Spec2Model ----
(***************************************************************************)
(* Model of bulk_imessage.py: the iMessage sender with post-send           *)
(* verification against the Messages database and timed SMS fallback.      *)
(*                                                                         *)
(* Text is modelled as a sequence of characters, each a string.  Time is an *)
(* integer count of half seconds, so that the 1.0 s poll interval is 2     *)
(* and a deadline of N + 0.5 s is 2N + 1.                                  *)
(***************************************************************************)
EXTENDS Integers, Sequences, FiniteSets, TLC

VARIABLES
    \* ---- command line and input (fixed during a run) ----
    rows,             \* list(reader): the raw phone cell of every CSV row
    dry_run,          \* args.dry_run
    verify_imessage,  \* args.verify_imessage
    limit,            \* args.limit
    verify_wait,      \* args.verify_wait  (half seconds)
    verify_timeout,   \* args.verify_timeout (half seconds)
    track_link,       \* args.track_link
    message,          \* args.message: the template
    \* ---- main() ----
    pc,               \* position of main()
    idx,              \* index of the row the for loop is at (1-based)
    phone,            \* normalize_phone(raw_phone) of the current row
    msg,              \* the rendered message of the current row
    processed, sent, failed, sms_sent, sms_failed,
    log,              \* the rows log_row has appended to the log file
    \* ---- verify_delivery() ----
    vpc,              \* position of verify_delivery()
    start,            \* its local start
    undel,            \* its local undel
    delivered,        \* its return value
    reads,            \* ledger reads completed by the current call
    copies,           \* temporary copies of chat.db that exist
    \* ---- environment ----
    now,              \* time.time(), in half seconds
    readCost,         \* half seconds one copy-and-query of the ledger takes
    stub,             \* what the ledger reports: anything (live), or a script
    events,           \* history: everything main() did, in order
    \* ---- pure-function harness ----
    fn, arg, ret      \* function applied, its argument, its result

vars == <<rows, dry_run, verify_imessage, limit, verify_wait, verify_timeout,
          track_link, message,
          pc, idx, phone, msg, processed, sent, failed, sms_sent, sms_failed, log,
          vpc, start, undel, delivered, reads, copies,
          now, readCost, stub, events, fn, arg, ret>>

cfgVars  == <<rows, dry_run, verify_imessage, limit, verify_wait, verify_timeout,
              track_link, message>>
cntVars  == <<processed, sent, failed, sms_sent, sms_failed>>
pollVars == <<vpc, start, undel, delivered, reads, copies>>
fnVars   == <<fn, arg, ret>>

----------------------------------------------------------------------------
(* Bounds of the model *)

MaxDigits      == 21   \* longest digit run among the normalizer's inputs
MaxRows        == 3    \* most CSV rows of a run
MaxLimit       == 2    \* largest --limit of a run
MaxN           == 4    \* most undelivered reads the ledger stub scripts
MaxWait        == 2    \* largest --verify-wait given to the poller alone
MaxMessages    == 2    \* most rows of the table message
MaxParams      == 2    \* most fields in the query of a link
MaxReadCost    == 2    \* most half seconds one read of the ledger takes

(* Program constants *)

PollInterval_two_seconds == 2 + 2   \* a mutant of PollInterval: time.sleep(2.0)

PollInterval   == 2    \* time.sleep(1.0), in half seconds
DelayDefault   == 5    \* --delay default 2.5, in half seconds

----------------------------------------------------------------------------
(* Text *)

None == <<"None">>          \* Python's None, distinct from every text

Max(a, b) == IF a >= b THEN a ELSE b

\* A character of the ASCII range is the string of that character; a control
\* character that has no escape, and the grave accent, is the string of its
\* name.  Ascii[c + 1] is the character of code c.
Ascii ==
    << "NUL", "SOH", "STX", "ETX", "EOT", "ENQ", "ACK", "BEL",
       "BS", "\t", "\n", "VT", "\f", "\r", "SO", "SI",
       "DLE", "DC1", "DC2", "DC3", "DC4", "NAK", "SYN", "ETB",
       "CAN", "EM", "SUB", "ESC", "FS", "GS", "RS", "US",
       " ", "!", "\"", "#", "$", "%", "&", "'", "(", ")", "*", "+", ",", "-", ".", "/",
       "0", "1", "2", "3", "4", "5", "6", "7", "8", "9", ":", ";", "<", "=", ">", "?",
       "@", "A", "B", "C", "D", "E", "F", "G", "H", "I", "J", "K", "L", "M", "N", "O",
       "P", "Q", "R", "S", "T", "U", "V", "W", "X", "Y", "Z", "[", "\\", "]", "^", "_",
       "GRAVE", "a", "b", "c", "d", "e", "f", "g", "h", "i", "j", "k", "l", "m", "n", "o",
       "p", "q", "r", "s", "t", "u", "v", "w", "x", "y", "z", "{", "|", "}", "~", "DEL" >>

AsciiChars == {Ascii[i] : i \in 1..Len(Ascii)}

IsAscii(c) == c \in AsciiChars

\* ord(c) of an ASCII character
Ord(c) == (CHOOSE i \in 1..Len(Ascii) : Ascii[i] = c) - 1

HexDigit == <<"0", "1", "2", "3", "4", "5", "6", "7", "8", "9", "A", "B", "C", "D", "E", "F">>

\* "%XX" of a byte, in three characters
PercentByte(b) == <<"%", HexDigit[(b \div 16) + 1], HexDigit[(b % 16) + 1]>>

\* c.encode("utf-8") of the character of code point cp
Utf8(cp) ==
    IF cp < 128 THEN <<cp>>
    ELSE IF cp < 2048 THEN <<192 + (cp \div 64), 128 + (cp % 64)>>
    ELSE IF cp < 65536
    THEN <<224 + (cp \div 4096), 128 + ((cp \div 64) % 64), 128 + (cp % 64)>>
    ELSE <<240 + (cp \div 262144), 128 + ((cp \div 4096) % 64),
           128 + ((cp \div 64) % 64), 128 + (cp % 64)>>

\* A character outside the ASCII range is the string that spells its UTF-8
\* bytes, "%C3%A9" for U+00E9
RECURSIVE Utf8Name(_)
Utf8Name(bytes) ==
    IF bytes = <<>> THEN ""
    ELSE LET p == PercentByte(Head(bytes))
         IN  p[1] \o p[2] \o p[3] \o Utf8Name(Tail(bytes))

\* chr(cp)
Chr(cp) == IF cp < 128 THEN Ascii[cp + 1] ELSE Utf8Name(Utf8(cp))

\* c.encode("utf-8") of a character
Utf8Of(c) ==
    IF IsAscii(c) THEN <<Ord(c)>>
    ELSE IF Len(c) = 6
    THEN CHOOSE b \in (194..223) \X (128..191) : Utf8Name(b) = c
    ELSE IF Len(c) = 9
    THEN CHOOSE b \in (224..239) \X (128..191) \X (128..191) : Utf8Name(b) = c
    ELSE LET C  == 128..191
             b1 == CHOOSE w \in 240..244 :
                       \E x \in C, y \in C, z \in C : Utf8Name(<<w, x, y, z>>) = c
             b2 == CHOOSE x \in C : \E y \in C, z \in C : Utf8Name(<<b1, x, y, z>>) = c
             b3 == CHOOSE y \in C : \E z \in C : Utf8Name(<<b1, b2, y, z>>) = c
             b4 == CHOOSE z \in C : Utf8Name(<<b1, b2, b3, z>>) = c
         IN  <<b1, b2, b3, b4>>

\* the code points str.isspace() holds of: what \s matches and strip() cuts
WhitespaceCodes ==
    (9..13) \cup (28..32) \cup {133, 160, 5760} \cup (8192..8202)
        \cup {8232, 8233, 8239, 8287, 12288}

\* the code points of the digits zero of the decimal digits \d matches; the
\* digits one to nine follow their zero
DigitZeros ==
    { 48, 1632, 1776, 1984, 2406, 2534, 2662, 2790, 2918, 3046, 3174, 3302,
      3430, 3558, 3664, 3792, 3872, 4160, 4240, 6112, 6160, 6470, 6608,
      6784, 6800, 6992, 7088, 7232, 7248, 42528, 43216, 43264, 43472,
      43504, 43600, 44016, 65296, 66720, 68912, 69734, 69872, 69942, 70096,
      70384, 70736, 70864, 71248, 71360, 71472, 71904, 72016, 72784, 73040,
      73120, 92768, 92864, 93008, 120782, 120792, 120802, 120812, 120822,
      123200, 123632, 125264, 130032 }

AsciiDigit == {"0", "1", "2", "3", "4", "5", "6", "7", "8", "9"}
Digit      == {Chr(z + k) : z \in DigitZeros, k \in 0..9}
Whitespace == {Chr(cp) : cp \in WhitespaceCodes}

IsDigit(c) == c \in Digit
IsSpace(c) == c \in Whitespace
NotBlank(c) == c # " "
NotSpace(c) == c \notin Whitespace

RECURSIVE lstrip(_)
lstrip(s) == IF s # <<>> /\ IsSpace(Head(s)) THEN lstrip(Tail(s)) ELSE s

RECURSIVE rstrip(_)
rstrip(s) == IF s # <<>> /\ IsSpace(s[Len(s)])
             THEN rstrip(SubSeq(s, 1, Len(s) - 1)) ELSE s

\* str.strip()
strip(s) == rstrip(lstrip(s))

\* re.sub(r"\D", "", s or "")
digits_only(s) == IF s = None THEN <<>> ELSE SelectSeq(s, IsDigit)

\* re.fullmatch(r"\+\d{8,20}", t)
MatchPlusDigits(t) ==
    /\ Len(t) >= 9 /\ Len(t) <= 21
    /\ t[1] = "+"
    /\ \A i \in 2..Len(t) : IsDigit(t[i])

\* a mutant of normalize_phone: the generic rule has no lower bound
normalize_phone_no_minimum(raw) ==
    IF raw = None THEN None
    ELSE LET s      == strip(raw)
             digits == SelectSeq(s, IsDigit)
         IN  IF MatchPlusDigits(SelectSeq(s, NotBlank))
             THEN SelectSeq(s, NotSpace)
             ELSE IF Len(digits) = 11 /\ digits[1] = "1"
             THEN <<"+">> \o digits
             ELSE IF Len(digits) = 10
             THEN <<"+", "1">> \o digits
             ELSE IF Len(digits) >= 1 /\ Len(digits) <= 15 /\ digits[1] # "0"
             THEN <<"+">> \o digits
             ELSE None

normalize_phone(raw) ==
    IF raw = None THEN None
    ELSE LET s      == strip(raw)
             digits == SelectSeq(s, IsDigit)
         IN  IF MatchPlusDigits(SelectSeq(s, NotBlank))
             THEN SelectSeq(s, NotSpace)
             ELSE IF Len(digits) = 11 /\ digits[1] = "1"
             THEN <<"+">> \o digits
             ELSE IF Len(digits) = 10
             THEN <<"+", "1">> \o digits
             ELSE IF Len(digits) >= 8 /\ Len(digits) <= 15 /\ digits[1] # "0"
             THEN <<"+">> \o digits
             ELSE None

----------------------------------------------------------------------------
(* Inputs of the normalizer *)

DigitChar(k) == CHOOSE c \in AsciiDigit : c = ToString(k)

\* a run of n digits: the first one f, then 1, 2, 3, ...
DigitRun(f, n) == [i \in 1..n |-> IF i = 1 THEN f ELSE DigitChar((i - 1) % 10)]

\* s with the separator sep put after its second character
Separated(s, sep) ==
    IF sep = <<>> \/ Len(s) < 3 THEN s
    ELSE SubSeq(s, 1, 2) \o sep \o SubSeq(s, 3, Len(s))

S12         == <<"1", "2">>
Sabc        == <<"a", "b", "c">>
S0123456789 == <<"0", "1", "2", "3", "4", "5", "6", "7", "8", "9">>
SUsLocal    == <<"(", "5", "5", "5", ")", " ", "1", "2", "3", "-", "4", "5", "6", "7">>
SUk         == <<"+", "4", "4", " ", "7", "9", "1", "1", " ", "1", "2", "3", "4", "5", "6">>
SUs10       == <<"5", "5", "5", "1", "2", "3", "4", "5", "6", "7">>

Examples == {S12, Sabc, S0123456789, SUsLocal, SUk, SUs10, <<>>, None}

\* U+00A0, a space outside the ASCII range, and U+0664, a digit four outside it
Nbsp       == Chr(160)
ArabicFour == Chr(1636)

RawInputs ==
    Examples \cup
    { lead \o plus \o Separated(DigitRun(f, n), sep) \o trail :
        lead \in {<<>>, <<" ">>, <<Nbsp>>}, plus \in {<<>>, <<"+">>},
        f \in {"0", "1", "4", ArabicFour}, n \in 0..MaxDigits,
        sep \in {<<>>, <<" ">>, <<"\t">>, <<"-">>, <<"\r">>},
        trail \in {<<>>, <<" ">>, <<"\r">>} }

----------------------------------------------------------------------------
(* Link personalization *)

Letter ==
    {"a", "b", "c", "d", "e", "f", "g", "h", "i", "j", "k", "l", "m",
     "n", "o", "p", "q", "r", "s", "t", "u", "v", "w", "x", "y", "z",
     "A", "B", "C", "D", "E", "F", "G", "H", "I", "J", "K", "L", "M",
     "N", "O", "P", "Q", "R", "S", "T", "U", "V", "W", "X", "Y", "Z"}

\* the least position i >= from with s[i] \in C, or 0: str.find
FindChar(s, C, from) ==
    LET S == {i \in from..Len(s) : s[i] \in C}
    IN  IF S = {} THEN 0 ELSE CHOOSE i \in S : \A j \in S : i <= j

\* the greatest position i with s[i] = c, or 0: str.rfind
RFindChar(s, c) ==
    LET S == {i \in 1..Len(s) : s[i] = c}
    IN  IF S = {} THEN 0 ELSE CHOOSE i \in S : \A j \in S : j <= i

\* t occurs in s at position i
startswith(s, i, t) ==
    /\ i + Len(t) - 1 <= Len(s)
    /\ SubSeq(s, i, i + Len(t) - 1) = t

\* s[from:], from a position counted from 1
From(s, from) == SubSeq(s, from, Len(s))

\* str.split(c)
RECURSIVE split(_, _)
split(s, c) ==
    LET i == FindChar(s, {c}, 1)
    IN  IF i = 0 THEN <<s>>
        ELSE <<SubSeq(s, 1, i - 1)>> \o split(From(s, i + 1), c)

\* str.split(c, 1)
split1(s, c) ==
    LET i == FindChar(s, {c}, 1)
    IN  IF i = 0 THEN <<s>> ELSE <<SubSeq(s, 1, i - 1), From(s, i + 1)>>

\* sep.join(parts)
RECURSIVE join(_, _)
join(parts, sep) ==
    IF parts = <<>> THEN <<>>
    ELSE IF Len(parts) = 1 THEN parts[1]
    ELSE parts[1] \o sep \o join(Tail(parts), sep)

THttp  == <<"h", "t", "t", "p">>
THttps == <<"h", "t", "t", "p", "s">>
TSlashes == <<":", "/", "/">>

\* the length of the match of https?:// at position i of text, or 0
UrlHead(text, i) ==
    IF startswith(text, i, THttps \o TSlashes) THEN Len(THttps \o TSlashes)
    ELSE IF startswith(text, i, THttp \o TSlashes) THEN Len(THttp \o TSlashes)
    ELSE 0

\* lines 66-70: re.search(r"(https?://\S+)", text or ""): the leftmost match,
\* as long as it can be; the span counts from 0 and excludes its end
find_first_url(text) ==
    LET t == IF text = None THEN <<>> ELSE text
        S == {i \in 1..Len(t) :
                /\ UrlHead(t, i) > 0
                /\ i + UrlHead(t, i) <= Len(t)
                /\ NotSpace(t[i + UrlHead(t, i)])}
    IN  IF S = {} THEN <<None, None>>
        ELSE LET i == CHOOSE i \in S : \A j \in S : i <= j
                 w == FindChar(t, Whitespace, i)
                 e == IF w = 0 THEN Len(t) ELSE w - 1
             IN  <<SubSeq(t, i, e), <<i - 1, e>>>>

\* an exception raised, distinct from every text
ValueError == <<"ValueError">>

HexChars ==
    AsciiDigit \cup {"a", "b", "c", "d", "e", "f", "A", "B", "C", "D", "E", "F"}

Chars(s) == {s[i] : i \in 1..Len(s)}

\* int(s, 10) of ASCII digits
RECURSIVE DecVal(_)
DecVal(s) ==
    IF s = <<>> THEN 0
    ELSE 10 * DecVal(SubSeq(s, 1, Len(s) - 1)) + (Ord(s[Len(s)]) - Ord("0"))

\* ipaddress.IPv4Address._parse_octet accepts o
IsOctet(o) ==
    /\ Len(o) >= 1 /\ Len(o) <= 3
    /\ \A i \in 1..Len(o) : o[i] \in AsciiDigit
    /\ (Len(o) > 1 => o[1] # "0")
    /\ DecVal(o) <= 255

\* ipaddress.IPv4Address(a) is an address
IsIPv4(a) ==
    /\ a # <<>>
    /\ LET o == split(a, ".")
       IN  Len(o) = 4 /\ \A i \in 1..4 : IsOctet(o[i])

\* ipaddress.IPv6Address._parse_hextet accepts h
IsHextet(h) ==
    /\ Len(h) >= 1 /\ Len(h) <= 4
    /\ \A i \in 1..Len(h) : h[i] \in HexChars

\* the parts before and after the part k left out are hextets, and at least
\* one part is left out: an empty first or last part stands by a leading or
\* trailing ::
HextetsAround(parts, k) ==
    LET n  == Len(parts)
        hi == IF parts[1] = <<>> THEN k - 2 ELSE k - 1
        lo == IF parts[n] = <<>> THEN n - k - 1 ELSE n - k
    IN  /\ parts[1] = <<>> => hi = 0
        /\ parts[n] = <<>> => lo = 0
        /\ 8 - (hi + lo) >= 1
        /\ \A i \in 1..hi : IsHextet(parts[i])
        /\ \A i \in (n - lo + 1)..n : IsHextet(parts[i])

\* ipaddress.IPv6Address._ip_int_from_string accepts the parts, once a dotted
\* last part is rewritten as two hextets: eight hextets, or fewer around one
\* empty inner part
IsHextets(parts) ==
    LET n     == Len(parts)
        skips == {i \in 2..(n - 1) : parts[i] = <<>>}
    IN  /\ n <= 9
        /\ Cardinality(skips) <= 1
        /\ IF skips # {}
           THEN HextetsAround(parts, CHOOSE i \in skips : TRUE)
           ELSE n = 8 /\ \A i \in 1..n : IsHextet(parts[i])

\* the parts between the colons of an address, the last one possibly a
\* dotted IPv4 address that stands for two parts
IsIPv6Parts(p0) ==
    /\ Len(p0) >= 3
    /\ IF "." \in Chars(p0[Len(p0)])
       THEN /\ IsIPv4(p0[Len(p0)])
            /\ IsHextets(SubSeq(p0, 1, Len(p0) - 1) \o << <<"0">>, <<"0">> >>)
       ELSE IsHextets(p0)

\* ipaddress.IPv6Address(a0) is an address: an optional %scope, then the
\* parts between colons
IsIPv6(a0) ==
    LET pct == FindChar(a0, {"%"}, 1)
    IN  /\ pct # 0 => (pct < Len(a0) /\ "%" \notin Chars(From(a0, pct + 1)))
        /\ pct # 1
        /\ a0 # <<>>
        /\ IsIPv6Parts(split(IF pct = 0 THEN a0 ELSE SubSeq(a0, 1, pct - 1), ":"))

\* re.match(r"\Av[a-fA-F0-9]+\..+\Z", h)
IsIPvFuture(h) ==
    LET d == FindChar(h, {"."}, 1)
    IN  /\ h # <<>> /\ Head(h) = "v"
        /\ d >= 3 /\ d < Len(h)
        /\ \A i \in 2..(d - 1) : h[i] \in HexChars
        /\ "\n" \notin Chars(From(h, d + 1))

\* urllib.parse._check_bracketed_host(hostname) returns
check_bracketed_host(hostname) ==
    IF hostname # <<>> /\ Head(hostname) = "v"
    THEN IsIPvFuture(hostname)
    ELSE IsIPv6(hostname)

\* the code points of the characters whose NFKC form holds one of / ? # @ :
NfkcUnsafeCodes ==
    { 8263, 8264, 8265, 8448, 8449, 8453, 8454, 10868, 65043, 65046, 65109,
      65110, 65119, 65131, 65283, 65295, 65306, 65311, 65312 }

NfkcUnsafe == {Chr(cp) : cp \in NfkcUnsafeCodes}

\* urllib.parse._checknetloc(netloc) returns
checknetloc(netloc) == Chars(netloc) \cap NfkcUnsafe = {}

\* urlsplit accepts the netloc: lines 495-500 and 505 of urllib/parse.py
NetlocAccepted(netloc) ==
    LET open  == FindChar(netloc, {"["}, 1)
        close == FindChar(netloc, {"]"}, 1)
        after == From(netloc, open + 1)
        c2    == FindChar(after, {"]"}, 1)
        host  == IF c2 = 0 THEN after ELSE SubSeq(after, 1, c2 - 1)
    IN  /\ (open = 0) = (close = 0)
        /\ open # 0 => check_bracketed_host(host)
        /\ checknetloc(netloc)

\* urllib.parse._splitnetloc(url, from): the netloc, which ends before the
\* first of / ? # from the position from counted from 0, and the rest
splitnetloc(url, from) ==
    LET d == FindChar(url, {"/", "?", "#"}, from + 1)
    IN  IF d = 0 THEN <<From(url, from + 1), <<>> >>
        ELSE <<SubSeq(url, from + 1, d - 1), From(url, d)>>

\* urlsplit, once the fragment is cut off: the query follows the first ?
SplitQuery(scheme, netloc, rest, fragment) ==
    LET q == FindChar(rest, {"?"}, 1)
    IN  [scheme   |-> scheme,
         netloc   |-> netloc,
         path     |-> IF q = 0 THEN rest ELSE SubSeq(rest, 1, q - 1),
         query    |-> IF q = 0 THEN <<>> ELSE From(rest, q + 1),
         fragment |-> fragment]

\* urlsplit, once the netloc is cut off: a netloc that is not accepted raises
\* ValueError, and the fragment follows the first #
SplitFragment(scheme, nr) ==
    LET h == FindChar(nr[2], {"#"}, 1)
    IN  IF ~NetlocAccepted(nr[1]) THEN [raised |-> ValueError]
        ELSE SplitQuery(scheme, nr[1],
                        IF h = 0 THEN nr[2] ELSE SubSeq(nr[2], 1, h - 1),
                        IF h = 0 THEN <<>> ELSE From(nr[2], h + 1))

\* urlsplit, once the scheme is cut off: a netloc follows //
SplitNetloc(scheme, rest) ==
    SplitFragment(scheme, IF startswith(rest, 1, <<"/", "/">>)
                          THEN splitnetloc(rest, 2)
                          ELSE << <<>>, rest>>)

\* urllib.parse.urlsplit of a URL that find_first_url returned: the scheme
\* ends before the first colon; a record of the ValueError when it is raised
urlsplit(url) ==
    LET c == FindChar(url, {":"}, 1)
    IN  SplitNetloc(SubSeq(url, 1, c - 1), From(url, c + 1))

\* urllib.parse._splitparams(url): the path and the params, which follow the
\* first ; of the last segment of the path
splitparams(url) ==
    LET semi == IF "/" \in Chars(url)
                THEN FindChar(url, {";"}, RFindChar(url, "/"))
                ELSE FindChar(url, {";"}, 1)
    IN  IF semi = 0 THEN <<url, <<>> >>
        ELSE <<SubSeq(url, 1, semi - 1), From(url, semi + 1)>>

\* ParseResult(scheme, netloc, url, params, query, fragment) of urlparse
ParseResult(r, pp) ==
    [scheme |-> r.scheme, netloc |-> r.netloc, path |-> pp[1], params |-> pp[2],
     query |-> r.query, fragment |-> r.fragment]

\* urlparse, once urlsplit returned or raised r
ParsedFrom(r) ==
    IF "raised" \in DOMAIN r THEN r ELSE ParseResult(r, splitparams(r.path))

\* urllib.parse.urlparse of a URL that find_first_url returned: the six
\* parts, or a record of the ValueError that urlsplit raises
urlparse(url) == ParsedFrom(urlsplit(url))

\* urllib.parse.urlunparse of an http or https URL: urlunsplit writes // and
\* the netloc unless the netloc is empty and the path begins with //
urlunparse(parts) ==
    LET p1 == IF parts.params # <<>> THEN parts.path \o <<";">> \o parts.params ELSE parts.path
        p3 == IF parts.netloc # <<>> \/ ~startswith(p1, 1, <<"/", "/">>)
              THEN <<"/", "/">> \o parts.netloc
                       \o (IF p1 # <<>> /\ Head(p1) # "/" THEN <<"/">> \o p1 ELSE p1)
              ELSE p1
        p4 == IF parts.scheme # <<>> THEN parts.scheme \o <<":">> \o p3 ELSE p3
        p5 == IF parts.query # <<>> THEN p4 \o <<"?">> \o parts.query ELSE p4
    IN  IF parts.fragment # <<>> THEN p5 \o <<"#">> \o parts.fragment ELSE p5

\* the characters quote_plus leaves alone
Safe == Letter \cup AsciiDigit \cup {"_", ".", "-", "~"}

\* int(c, 16) of a hexadecimal digit of either case
HexVal(c) ==
    IF c \in AsciiDigit THEN Ord(c) - Ord("0")
    ELSE IF c \in {"a", "b", "c", "d", "e", "f"} THEN Ord(c) - Ord("a") + 10
    ELSE Ord(c) - Ord("A") + 10

\* the bytes that may follow the first byte b1 of a UTF-8 sequence
SecondBytes(b1) ==
    IF b1 = 224 THEN 160..191
    ELSE IF b1 = 237 THEN 128..159
    ELSE IF b1 = 240 THEN 144..191
    ELSE IF b1 = 244 THEN 128..143
    ELSE 128..191

\* the length of the UTF-8 sequence the byte b1 begins, 0 if it begins none
SequenceLength(b1) ==
    IF b1 < 128 THEN 1
    ELSE IF b1 >= 194 /\ b1 <= 223 THEN 2
    ELSE IF b1 >= 224 /\ b1 <= 239 THEN 3
    ELSE IF b1 >= 240 /\ b1 <= 244 THEN 4
    ELSE 0

\* how many of the leading bytes of b are the beginning of a UTF-8 sequence
WellFormedPrefix(b) ==
    LET n == SequenceLength(b[1])
    IN  IF n = 0 THEN 0
        ELSE IF n = 1 \/ Len(b) < 2 \/ b[2] \notin SecondBytes(b[1]) THEN 1
        ELSE IF n = 2 \/ Len(b) < 3 \/ b[3] \notin 128..191 THEN 2
        ELSE IF n = 3 \/ Len(b) < 4 \/ b[4] \notin 128..191 THEN 3
        ELSE 4

\* U+FFFD, what errors="replace" puts for bytes that are no character
Replacement == Chr(65533)

\* bytes.decode("utf-8", "replace")
RECURSIVE decode(_)
decode(b) ==
    IF b = <<>> THEN <<>>
    ELSE LET n == SequenceLength(b[1])
             k == WellFormedPrefix(b)
         IN  IF n # 0 /\ k = n
             THEN <<(IF n = 1 THEN Ascii[b[1] + 1] ELSE Utf8Name(SubSeq(b, 1, n)))>>
                      \o decode(From(b, n + 1))
             ELSE <<Replacement>> \o decode(From(b, Max(1, k) + 1))

\* the rest of unquote: acc holds the bytes of the ASCII run being read, in
\* which %XX stands for the byte XX and any other character for itself
RECURSIVE UnquoteRun(_, _)
UnquoteRun(s, acc) ==
    IF s = <<>> THEN decode(acc)
    ELSE IF ~IsAscii(Head(s))
    THEN decode(acc) \o <<Head(s)>> \o UnquoteRun(Tail(s), <<>>)
    ELSE IF Head(s) = "%" /\ Len(s) >= 3 /\ s[2] \in HexChars /\ s[3] \in HexChars
    THEN UnquoteRun(From(s, 4), Append(acc, 16 * HexVal(s[2]) + HexVal(s[3])))
    ELSE UnquoteRun(Tail(s), Append(acc, Ord(Head(s))))

\* urllib.parse.unquote
unquote(s) == IF "%" \notin Chars(s) THEN s ELSE UnquoteRun(s, <<>>)

\* s.replace("+", " ")
PlusToSpace(s) == [i \in 1..Len(s) |-> IF s[i] = "+" THEN " " ELSE s[i]]

\* "%XX" for every byte of bytes
RECURSIVE PercentBytes(_)
PercentBytes(bytes) ==
    IF bytes = <<>> THEN <<>>
    ELSE PercentByte(Head(bytes)) \o PercentBytes(Tail(bytes))

\* urllib.parse.quote_plus
RECURSIVE quote_plus(_)
quote_plus(s) ==
    IF s = <<>> THEN <<>>
    ELSE (IF Head(s) \in Safe THEN <<Head(s)>>
          ELSE IF Head(s) = " " THEN <<"+">>
          ELSE PercentBytes(Utf8Of(Head(s)))) \o quote_plus(Tail(s))

\* urllib.parse.parse_qsl(qs, keep_blank_values=True): the (name, value) pairs
RECURSIVE DecodePairs(_)
DecodePairs(fields) ==
    IF fields = <<>> THEN <<>>
    ELSE LET nv    == split1(Head(fields), "=")
             name  == unquote(PlusToSpace(nv[1]))
             value == IF Len(nv) = 2 THEN unquote(PlusToSpace(nv[2])) ELSE <<>>
         IN  (IF Head(fields) = <<>> THEN <<>> ELSE << <<name, value>> >>)
                 \o DecodePairs(Tail(fields))

parse_qsl(qs) == IF qs = <<>> THEN <<>> ELSE DecodePairs(split(qs, "&"))

\* q[key] = value on a dict kept as the sequence of its items: a key keeps
\* the place of its first insertion
DictSet(q, key, value) ==
    IF \E i \in 1..Len(q) : q[i][1] = key
    THEN [i \in 1..Len(q) |-> IF q[i][1] = key THEN <<key, value>> ELSE q[i]]
    ELSE Append(q, <<key, value>>)

\* dict(pairs)
RECURSIVE DictFrom(_, _)
DictFrom(q, pairs) ==
    IF pairs = <<>> THEN q
    ELSE DictFrom(DictSet(q, Head(pairs)[1], Head(pairs)[2]), Tail(pairs))

dict(pairs) == DictFrom(<<>>, pairs)

\* urllib.parse.urlencode(q, doseq=True) of a dict of texts
urlencode(q) ==
    join([i \in 1..Len(q) |-> quote_plus(q[i][1]) \o <<"=">> \o quote_plus(q[i][2])],
         <<"&">>)

\* lines 74-77, for what urlparse returned or raised
WithParam(parts, key, value) ==
    IF "raised" \in DOMAIN parts THEN ValueError
    ELSE urlunparse([parts EXCEPT
             !.query = urlencode(DictSet(dict(parse_qsl(parts.query)), key, value))])

\* lines 72-77; ValueError when urlparse raises it
add_query_param(url, key, value) == WithParam(urlparse(url), key, value)

\* line 86, for what add_query_param returned or raised
Spliced(m, span, new_url) ==
    IF new_url = ValueError THEN ValueError
    ELSE SubSeq(m, 1, span[1]) \o new_url \o From(m, span[2] + 1)

\* lines 81-86, for what find_first_url returned
PersonalizedAt(m, found, phone_e164, field_name) ==
    IF found[1] = None THEN m
    ELSE Spliced(m, found[2],
                 add_query_param(found[1], field_name, digits_only(phone_e164)))

\* lines 79-86: the message, or ValueError when urlparse raises it
personalize_link_in_message(m, phone_e164, field_name) ==
    PersonalizedAt(m, find_first_url(m), phone_e164, field_name)

----------------------------------------------------------------------------
(* The send capability *)

\* run_osascript(script, phone, message, dry_run): the (ok, info) pairs it can
\* return.  A dry run returns (True, "dry-run") without running anything; a
\* real run returns what osascript reports, and an exception raised by
\* subprocess.run is caught and returned as a failure.
run_osascript(dry) ==
    IF dry
    THEN { [ok |-> TRUE, info |-> "dry-run"] }
    ELSE { [ok |-> TRUE,  info |-> "sent"],
           [ok |-> FALSE, info |-> "osascript error"],
           [ok |-> FALSE, info |-> "exception"] }

----------------------------------------------------------------------------
(* History and log *)

\* the message text logged for a row that is skipped
NoMessage == <<>>

\* an event of the history; msg is the message handed over by a dispatch
Event(op, what) ==
    [op |-> op, row |-> idx, what |-> what, phone |-> phone, msg |-> NoMessage,
     dry |-> dry_run, ok |-> TRUE]

\* the call run_osascript(script, phone, msg, dry_run=dry) and what it returned
Dispatched(channel, dry, out) ==
    [Event("dispatch", channel) EXCEPT !.msg = msg, !.dry = dry, !.ok = out.ok]

\* log_row(phone, first_name, status, info, message_text)
log_row(ph, status, info, text) ==
    [phone |-> ph, status |-> status, info |-> info, message |-> text]

\* --link-field-name, by default
TCid == <<"c", "i", "d">>

\* the replacement field of a template; a template is a text in which this
\* field may stand, and has no other brace
FirstNameField == "{first_name}"

\* template.format(first_name=first_name)
RECURSIVE format(_, _)
format(template, first_name) ==
    IF template = <<>> THEN <<>>
    ELSE (IF Head(template) = FirstNameField THEN first_name ELSE <<Head(template)>>)
             \o format(Tail(template), first_name)

\* line 270: the stripped first_name cell of row i of the CSV
FirstName(i) == <<"r", DigitChar(i)>>

\* line 271: the template with the first name of row i
FormattedMessage(i) == format(message, FirstName(i))

\* lines 271-273: the message of row i, or ValueError when
\* personalize_link_in_message raises it
RenderedMessage(i, ph) ==
    IF track_link THEN personalize_link_in_message(FormattedMessage(i), ph, TCid)
    ELSE FormattedMessage(i)


\* the events of row i, in order
RowEvents(i) == SelectSeq(events, LAMBDA e : e.row = i)

IsLog(e)      == e.op = "log"
IsDispatch(e) == e.op = "dispatch"
IsRead(e)     == e.op = "read"
IsDelay(e)    == e.op = "sleep" /\ e.what = "delay"

\* the statuses logged for row i, in order
RowStatuses(i) ==
    LET l == SelectSeq(RowEvents(i), IsLog)
    IN  [k \in 1..Len(l) |-> l[k].what]

RowDispatches(i) == SelectSeq(RowEvents(i), IsDispatch)
RowReads(i)      == SelectSeq(RowEvents(i), IsRead)

CountStatus(s) == Cardinality({k \in 1..Len(log) : log[k].status = s})

----------------------------------------------------------------------------
(* verify_delivery *)

\* what read number k of the ledger can report
StubReports(k) ==
    IF stub.kind = "live" THEN {TRUE, FALSE}
    ELSE IF stub.kind = "never" THEN {FALSE}
    ELSE {k > stub.n}

\* lines 155-156: start = time.time(); time.sleep(max(0.0, wait))
VerifyStart ==
    /\ vpc = "start"
    /\ start' = now
    /\ now' = now + Max(0, verify_wait)
    /\ vpc' = "copy"
    /\ events' = Append(events, Event("sleep", "wait"))
    /\ UNCHANGED <<undel, delivered, reads, copies>>
    /\ UNCHANGED <<cfgVars, cntVars, fnVars, pc, idx, phone, msg, log, readCost, stub>>

\* line 158: tmp_db, td = copy_db(src_db)
VerifyCopy ==
    /\ vpc = "copy"
    /\ copies' = copies + 1
    /\ vpc' = "query"
    /\ UNCHANGED <<start, undel, delivered, reads>>
    /\ UNCHANGED <<cfgVars, cntVars, fnVars, pc, idx, phone, msg, log, now, readCost, stub, events>>

\* line 158 when shutil.copy2 raises: nothing in verify_delivery or main
\* catches it.  copy2 can fail before it creates the file (the source cannot
\* be opened) or after (the disk is full, the metadata cannot be copied); the
\* call is outside the try of lines 159-169, so td.cleanup() is not run
VerifyCopyRaises ==
    /\ vpc = "copy"
    /\ stub.kind = "live"
    /\ \E leftover \in {0, 1} : copies' = copies + leftover
    /\ vpc' = "raised"
    /\ pc' = IF pc = "verify" THEN "crashed" ELSE pc
    /\ events' = Append(events, Event("read", "copy error"))
    /\ UNCHANGED <<start, undel, delivered, reads>>
    /\ UNCHANGED <<cfgVars, cntVars, fnVars, idx, phone, msg, log, now, readCost, stub>>

\* lines 159-169: the queries of one iteration, then td.cleanup()
VerifyQuery ==
    /\ vpc = "query"
    /\ \E isDelivered \in StubReports(reads + 1) :
         /\ undel' = ~isDelivered
         /\ events' = Append(events,
               Event("read", IF isDelivered THEN "delivered" ELSE "undelivered"))
    /\ reads' = reads + 1
    /\ copies' = copies - 1
    /\ now' = now + readCost
    /\ vpc' = "check"
    /\ UNCHANGED <<start, delivered>>
    /\ UNCHANGED <<cfgVars, cntVars, fnVars, pc, idx, phone, msg, log, readCost, stub>>

\* lines 159-169 when sqlite3 raises (the copy is no database, or a table is
\* missing): the finally clause cleans up and the exception goes on
VerifyQueryRaises ==
    /\ vpc = "query"
    /\ stub.kind = "live"
    /\ copies' = copies - 1
    /\ now' = now + readCost
    /\ vpc' = "raised"
    /\ pc' = IF pc = "verify" THEN "crashed" ELSE pc
    /\ events' = Append(events, Event("read", "query error"))
    /\ UNCHANGED <<start, undel, delivered, reads>>
    /\ UNCHANGED <<cfgVars, cntVars, fnVars, idx, phone, msg, log, readCost, stub>>

\* lines 108-111 after the exception has ended the run: the TemporaryDirectory
\* that copy_db created and never returned is removed when the object is
\* finalized
CopyFinalized ==
    /\ vpc = "raised"
    /\ copies > 0
    /\ copies' = 0
    /\ UNCHANGED <<vpc, start, undel, delivered, reads>>
    /\ UNCHANGED <<cfgVars, cntVars, fnVars, pc, idx, phone, msg, log, now, readCost, stub, events>>

\* a mutant of VerifyCheck: the deadline is compared with the clock, not
\* with the time elapsed since start
VerifyCheck_clock_not_elapsed ==
    /\ vpc = "check"
    /\ IF ~undel
       THEN /\ delivered' = TRUE
            /\ vpc' = "returned"
            /\ UNCHANGED <<now, events>>
       ELSE IF now >= verify_timeout
       THEN /\ delivered' = FALSE
            /\ vpc' = "returned"
            /\ UNCHANGED <<now, events>>
       ELSE /\ now' = now + PollInterval
            /\ vpc' = "copy"
            /\ events' = Append(events, Event("sleep", "interval"))
            /\ UNCHANGED delivered
    /\ UNCHANGED <<start, undel, reads, copies>>
    /\ UNCHANGED <<cfgVars, cntVars, fnVars, pc, idx, phone, msg, log, readCost, stub>>

\* a mutant of VerifyCheck: the deadline is tested before the verdict of the
\* read
VerifyCheck_deadline_first ==
    /\ vpc = "check"
    /\ IF now - start >= verify_timeout
       THEN /\ delivered' = FALSE
            /\ vpc' = "returned"
            /\ UNCHANGED <<now, events>>
       ELSE IF ~undel
       THEN /\ delivered' = TRUE
            /\ vpc' = "returned"
            /\ UNCHANGED <<now, events>>
       ELSE /\ now' = now + PollInterval
            /\ vpc' = "copy"
            /\ events' = Append(events, Event("sleep", "interval"))
            /\ UNCHANGED delivered
    /\ UNCHANGED <<start, undel, reads, copies>>
    /\ UNCHANGED <<cfgVars, cntVars, fnVars, pc, idx, phone, msg, log, readCost, stub>>

\* lines 171-175
VerifyCheck ==
    /\ vpc = "check"
    /\ IF ~undel
       THEN /\ delivered' = TRUE
            /\ vpc' = "returned"
            /\ UNCHANGED <<now, events>>
       ELSE IF now - start >= verify_timeout
       THEN /\ delivered' = FALSE
            /\ vpc' = "returned"
            /\ UNCHANGED <<now, events>>
       ELSE /\ now' = now + PollInterval
            /\ vpc' = "copy"
            /\ events' = Append(events, Event("sleep", "interval"))
            /\ UNCHANGED delivered
    /\ UNCHANGED <<start, undel, reads, copies>>
    /\ UNCHANGED <<cfgVars, cntVars, fnVars, pc, idx, phone, msg, log, readCost, stub>>

----------------------------------------------------------------------------
(* main *)

\* a mutant of LimitReached: the comparison is off by one
LimitReached_off_by_one == limit # 0 /\ processed > limit

\* line 257
LimitReached == limit # 0 /\ processed >= limit

\* line 256: the rows are exhausted
LoopExhausted ==
    /\ pc = "loop"
    /\ idx > Len(rows)
    /\ pc' = "done"
    /\ UNCHANGED <<cfgVars, cntVars, pollVars, fnVars, idx, phone, msg, log, now, readCost, stub, events>>

\* lines 257-258: break at the limit
LoopBreak ==
    /\ pc = "loop"
    /\ idx <= Len(rows)
    /\ LimitReached
    /\ pc' = "done"
    /\ UNCHANGED <<cfgVars, cntVars, pollVars, fnVars, idx, phone, msg, log, now, readCost, stub, events>>

\* a mutant of RowSkip: the skipped row is counted but not logged
RowSkip_not_logged ==
    /\ pc = "loop"
    /\ idx <= Len(rows)
    /\ ~LimitReached
    /\ normalize_phone(rows[idx]) = None
    /\ processed' = processed + 1
    /\ phone' = None
    /\ failed' = failed + 1
    /\ events' = Append(events, [Event("normalize", "none") EXCEPT !.phone = None])
    /\ idx' = idx + 1
    /\ UNCHANGED <<cfgVars, pollVars, fnVars, pc, msg, log, sent, sms_sent, sms_failed, now, readCost, stub>>

\* lines 259-268: the phone does not normalize
RowSkip ==
    /\ pc = "loop"
    /\ idx <= Len(rows)
    /\ ~LimitReached
    /\ normalize_phone(rows[idx]) = None
    /\ processed' = processed + 1
    /\ phone' = None
    /\ failed' = failed + 1
    /\ log' = Append(log, log_row(<<>>, "failed", "Unusable phone", NoMessage))
    /\ events' = events \o << [Event("normalize", "none") EXCEPT !.phone = None],
                              [Event("log", "failed") EXCEPT !.phone = None] >>
    /\ idx' = idx + 1
    /\ UNCHANGED <<cfgVars, pollVars, fnVars, pc, msg, sent, sms_sent, sms_failed, now, readCost, stub>>

\* lines 256-263: the loop is at a row within the limit whose phone normalizes
RowUsable ==
    /\ pc = "loop"
    /\ idx <= Len(rows)
    /\ ~LimitReached
    /\ normalize_phone(rows[idx]) # None

\* lines 259-273: the phone normalizes and link personalization raises
\* ValueError, which nothing catches; msg holds the formatted template that
\* line 271 assigned before line 273 raised
RowBeginRaises ==
    /\ RowUsable
    /\ RenderedMessage(idx, normalize_phone(rows[idx])) = ValueError
    /\ processed' = processed + 1
    /\ phone' = normalize_phone(rows[idx])
    /\ msg' = FormattedMessage(idx)
    /\ events' = Append(events, [Event("normalize", "ok") EXCEPT !.phone = phone'])
    /\ pc' = "crashed"
    /\ UNCHANGED <<cfgVars, pollVars, fnVars, idx, log, sent, failed, sms_sent, sms_failed, now, readCost, stub>>

\* lines 259-273: the phone normalizes; the message is rendered
RowBegin ==
    /\ RowUsable
    /\ RenderedMessage(idx, normalize_phone(rows[idx])) # ValueError
    /\ processed' = processed + 1
    /\ phone' = normalize_phone(rows[idx])
    /\ msg' = RenderedMessage(idx, phone')
    /\ events' = Append(events, [Event("normalize", "ok") EXCEPT !.phone = phone'])
    /\ pc' = "primary"
    /\ UNCHANGED <<cfgVars, pollVars, fnVars, idx, log, sent, failed, sms_sent, sms_failed, now, readCost, stub>>

\* a mutant of Verifies: a dry run is verified too
Verifies_in_dry_run == verify_imessage

\* after a successful primary send, lines 298-300: is the delivery verified?
Verifies == verify_imessage /\ ~dry_run

\* a mutant of PrimaryDispatch: with verification on, the sent record is not
\* written before verify_delivery is called
PrimaryDispatch_sent_not_logged_first ==
    /\ pc = "primary"
    /\ \E out \in run_osascript(dry_run) :
         IF ~out.ok
         THEN /\ log' = Append(log, log_row(phone, "failed", <<"imessage:", out.info>>, msg))
              /\ events' = events \o <<Dispatched("imessage", dry_run, out), Event("log", "failed")>>
              /\ pc' = "fallback"
              /\ UNCHANGED <<sent, vpc, start, reads>>
         ELSE /\ sent' = sent + 1
              /\ IF Verifies
                 THEN /\ events' = events \o <<Dispatched("imessage", dry_run, out),
                                               Event("verify", "begin")>>
                      /\ pc' = "verify"
                      /\ vpc' = "start"
                      /\ reads' = 0
                      /\ start' = 0
                      /\ UNCHANGED log
                 ELSE /\ log' = Append(log, log_row(phone, "sent", <<out.info>>, msg))
                      /\ events' = events \o <<Dispatched("imessage", dry_run, out), Event("log", "sent")>>
                      /\ pc' = "delay"
                      /\ UNCHANGED <<vpc, start, reads>>
    /\ UNCHANGED <<cfgVars, fnVars, idx, phone, msg, processed, failed, sms_sent, sms_failed,
                   undel, delivered, copies, now, readCost, stub>>

\* lines 276-279 and 294-300
PrimaryDispatch ==
    /\ pc = "primary"
    /\ \E out \in run_osascript(dry_run) :
         IF ~out.ok
         THEN /\ log' = Append(log, log_row(phone, "failed", <<"imessage:", out.info>>, msg))
              /\ events' = events \o <<Dispatched("imessage", dry_run, out), Event("log", "failed")>>
              /\ pc' = "fallback"
              /\ UNCHANGED <<sent, vpc, start, reads>>
         ELSE /\ sent' = sent + 1
              /\ log' = Append(log, log_row(phone, "sent", <<out.info>>, msg))
              /\ IF Verifies
                 THEN /\ events' = events \o <<Dispatched("imessage", dry_run, out), Event("log", "sent"),
                                               Event("verify", "begin")>>
                      /\ pc' = "verify"
                      /\ vpc' = "start"
                      /\ reads' = 0
                      /\ start' = 0
                 ELSE /\ events' = events \o <<Dispatched("imessage", dry_run, out), Event("log", "sent")>>
                      /\ pc' = "delay"
                      /\ UNCHANGED <<vpc, start, reads>>
    /\ UNCHANGED <<cfgVars, fnVars, idx, phone, msg, processed, failed, sms_sent, sms_failed,
                   undel, delivered, copies, now, readCost, stub>>

\* a mutant of SmsStatus: the two statuses are exchanged
SmsStatus_swapped(ok) == IF ok THEN "sms_failed" ELSE "sms_sent"

\* lines 285 and 289, lines 309 and 313: the status logged for an SMS send
SmsStatus(ok) == IF ok THEN "sms_sent" ELSE "sms_failed"

\* an SMS send, its counter and its log row: lines 281-289 and lines 305-313
SmsSend(dry) ==
    \E out \in run_osascript(dry) :
        /\ sms_sent' = IF out.ok THEN sms_sent + 1 ELSE sms_sent
        /\ sms_failed' = IF out.ok THEN sms_failed ELSE sms_failed + 1
        /\ log' = Append(log, log_row(phone, SmsStatus(out.ok), <<out.info>>, msg))
        /\ events' = events \o << Dispatched("sms", dry, out),
                                  Event("log", SmsStatus(out.ok)) >>

\* a mutant of Fallback: the SMS is tried again after the fallback
Fallback_tried_again ==
    /\ pc = "fallback"
    /\ SmsSend(dry_run)
    /\ pc' = "sms_retry"
    /\ UNCHANGED <<cfgVars, pollVars, fnVars, idx, phone, msg, processed, sent, failed, now, readCost, stub>>

\* lines 280-289: immediate SMS fallback after a failed primary send
Fallback ==
    /\ pc = "fallback"
    /\ SmsSend(dry_run)
    /\ pc' = "delay"
    /\ UNCHANGED <<cfgVars, pollVars, fnVars, idx, phone, msg, processed, sent, failed, now, readCost, stub>>

\* a mutant of AfterVerify: the test of delivered is inverted
AfterVerify_inverted ==
    /\ pc = "verify"
    /\ vpc = "returned"
    /\ vpc' = "idle"
    /\ pc' = IF delivered THEN "sms_retry" ELSE "delay"
    /\ events' = Append(events, Event("verify", IF delivered THEN "delivered" ELSE "undelivered"))
    /\ UNCHANGED <<start, undel, delivered, reads, copies>>
    /\ UNCHANGED <<cfgVars, cntVars, fnVars, idx, phone, msg, log, now, readCost, stub>>

\* lines 300-304: verify_delivery has returned
AfterVerify ==
    /\ pc = "verify"
    /\ vpc = "returned"
    /\ vpc' = "idle"
    /\ pc' = IF delivered THEN "delay" ELSE "sms_retry"
    /\ events' = Append(events, Event("verify", IF delivered THEN "delivered" ELSE "undelivered"))
    /\ UNCHANGED <<start, undel, delivered, reads, copies>>
    /\ UNCHANGED <<cfgVars, cntVars, fnVars, idx, phone, msg, log, now, readCost, stub>>

\* a mutant of Delay: the next row is begun while the poll of this one is
\* still running
Delay_during_poll ==
    /\ pc \in {"delay", "verify"}
    /\ now' = now + DelayDefault
    /\ events' = Append(events, Event("sleep", "delay"))
    /\ idx' = idx + 1
    /\ pc' = "loop"
    /\ UNCHANGED <<cfgVars, cntVars, pollVars, fnVars, phone, msg, log, readCost, stub>>

\* lines 305-313: SMS after the delivery was not confirmed in time
SmsRetry ==
    /\ pc = "sms_retry"
    /\ SmsSend(FALSE)
    /\ pc' = "delay"
    /\ UNCHANGED <<cfgVars, pollVars, fnVars, idx, phone, msg, processed, sent, failed, now, readCost, stub>>

\* lines 290-291 and 315: time.sleep(args.delay), then the next row
Delay ==
    /\ pc = "delay"
    /\ now' = now + DelayDefault
    /\ events' = Append(events, Event("sleep", "delay"))
    /\ idx' = idx + 1
    /\ pc' = "loop"
    /\ UNCHANGED <<cfgVars, cntVars, pollVars, fnVars, phone, msg, log, readCost, stub>>

----------------------------------------------------------------------------
(* The ledger: a copy of chat.db as the queries see it *)

\* A value read from the database is NULL (Python's None) or an integer
Null   == <<>>
Num(v) == <<v>>

\* str.endswith
endswith(s, t) ==
    /\ Len(t) <= Len(s)
    /\ SubSeq(s, Len(s) - Len(t) + 1, Len(s)) = t

\* lines 117-121: the rows of handle by descending ROWID, the first match
RECURSIVE ScanHandles(_, _, _)
ScanHandles(handle, rowid, want) ==
    IF rowid = 0 THEN <<Null, Null>>
    ELSE IF endswith(digits_only(handle[rowid]), want)
    THEN <<Num(rowid), handle[rowid]>>
    ELSE ScanHandles(handle, rowid - 1, want)

\* a mutant of find_handle_for_phone: the first match by ascending ROWID
find_handle_ascending(db, phone_e164) ==
    LET S == {k \in 1..Len(db.handle) :
                 endswith(digits_only(db.handle[k]), digits_only(phone_e164))}
    IN  IF S = {} THEN <<Null, Null>>
        ELSE LET k == CHOOSE k \in S : \A j \in S : k <= j
             IN  <<Num(k), db.handle[k]>>

\* lines 114-121; the table handle is a sequence of ids, the ROWID of a row
\* its position
find_handle_for_phone(db, phone_e164) ==
    ScanHandles(db.handle, Len(db.handle), digits_only(phone_e164))

\* lines 123-135: the results (row, has_is_delivered, has_date_delivered) the
\* call can give; the row is (ROWID, date, text, is_delivered or NULL,
\* date_delivered or NULL).  ORDER BY m.date DESC LIMIT 1 gives a row of
\* greatest date, and SQLite is free in which one when several rows have it.
latest_outgoing_for_handle(db, handle_rowid) ==
    LET m    == db.message
        sel  == {k \in 1..Len(m) : m[k].is_from_me = 1 /\ Num(m[k].handle_id) = handle_rowid}
        top  == {k \in sel : \A j \in sel : m[j].date <= m[k].date}
        outs == IF sel = {} THEN {Null}
                ELSE { << Num(k), Num(m[k].date), <<"text">>,
                          IF "is_delivered" \in db.cols THEN m[k].is_delivered ELSE Null,
                          IF "date_delivered" \in db.cols THEN m[k].date_delivered ELSE Null >> :
                       k \in top }
    IN  { <<row, "is_delivered" \in db.cols, "date_delivered" \in db.cols>> : row \in outs }

\* a mutant of is_undelivered: both fields must say undelivered
is_undelivered_both(row, has_is_delivered, has_date_delivered) ==
    IF row = Null THEN TRUE
    ELSE LET is_del        == IF has_is_delivered THEN row[4] ELSE Null
             date_del      == IF has_date_delivered THEN row[5] ELSE Null
             undel_by_is   == has_is_delivered /\ is_del = Num(0)
             undel_by_date == has_date_delivered /\ (date_del = Null \/ date_del = Num(0))
         IN  IF ~has_is_delivered /\ ~has_date_delivered THEN TRUE
             ELSE undel_by_is /\ undel_by_date

\* lines 137-148
is_undelivered(row, has_is_delivered, has_date_delivered) ==
    IF row = Null THEN TRUE
    ELSE LET is_del        == IF has_is_delivered THEN row[4] ELSE Null
             date_del      == IF has_date_delivered THEN row[5] ELSE Null
             undel_by_is   == has_is_delivered /\ is_del = Num(0)
             undel_by_date == has_date_delivered /\ (date_del = Null \/ date_del = Num(0))
         IN  IF ~has_is_delivered /\ ~has_date_delivered THEN TRUE
             ELSE undel_by_is \/ undel_by_date

\* Python's truth of a ROWID: None and 0 are false
Truthy(v) == v # Null /\ v # Num(0)

\* lines 160-167: the outcomes of the check of one poll iteration; hid and
\* row are kept with the verdict
LedgerCheck(db, phone_e164) ==
    LET hid == find_handle_for_phone(db, phone_e164)[1]
    IN  IF Truthy(hid)
        THEN { [hid |-> hid, row |-> r[1], undel |-> is_undelivered(r[1], r[2], r[3])] :
                 r \in latest_outgoing_for_handle(db, hid) }
        ELSE { [hid |-> hid, row |-> Null, undel |-> TRUE] }

----------------------------------------------------------------------------
(* Specifications *)

RowPhones == {S12, SUs10}

RowLists == UNION { [1..n -> RowPhones] : n \in 0..MaxRows }

NoCall == /\ fn = "" /\ arg = None /\ ret = None

\* the templates of the runs: one with a link, one without, and one with a
\* link whose host urlparse rejects
TemplateLink  == <<FirstNameField, " ">> \o THttp \o TSlashes \o <<"t", ".", "i", "o", "/", "p">>
TemplatePlain == <<"h", "i", " ", FirstNameField>>
TemplateBad   == <<"g", "o", " ">> \o THttp \o TSlashes \o <<"[", "a", " ", "n", "o", "w">>

Templates == {TemplateLink, TemplatePlain, TemplateBad}

\* a run of main(): state after line 254.  With --track-link the template is
\* any of the three, without it TemplateLink; the runs that verify delivery
\* track the link of TemplateLink.
Init ==
    /\ rows \in RowLists
    /\ dry_run \in BOOLEAN
    /\ verify_imessage \in BOOLEAN
    /\ track_link \in BOOLEAN
    /\ message \in Templates
    /\ ~track_link => message = TemplateLink
    /\ (verify_imessage /\ ~dry_run) => (track_link /\ message = TemplateLink)
    /\ limit \in 0..MaxLimit
    /\ verify_wait = 0
    /\ verify_timeout = 2      \* --verify-timeout 1: one or two reads of the ledger
    /\ pc = "loop" /\ idx = 1 /\ phone = None /\ msg = NoMessage
    /\ processed = 0 /\ sent = 0 /\ failed = 0 /\ sms_sent = 0 /\ sms_failed = 0
    /\ log = <<>>
    /\ vpc = "idle" /\ start = 0 /\ undel = TRUE /\ delivered = FALSE
    /\ reads = 0 /\ copies = 0
    /\ now = 0 /\ readCost = 1
    /\ stub = [kind |-> "live", n |-> 0]
    /\ events = <<>>
    /\ NoCall

Next ==
    \/ LoopExhausted \/ LoopBreak \/ RowSkip \/ RowBegin \/ RowBeginRaises
    \/ PrimaryDispatch \/ Fallback \/ AfterVerify \/ SmsRetry \/ Delay
    \/ VerifyStart \/ VerifyCopy \/ VerifyCopyRaises \/ CopyFinalized
    \/ VerifyQuery \/ VerifyQueryRaises \/ VerifyCheck

Spec == Init /\ [][Next]_vars

\* the steps of Next other than the rendering of a row's message, which
\* RowUsable enables
NextAfterRendering ==
    \/ LoopExhausted \/ LoopBreak \/ RowSkip
    \/ PrimaryDispatch \/ Fallback \/ AfterVerify \/ SmsRetry \/ Delay
    \/ VerifyStart \/ VerifyCopy \/ VerifyCopyRaises \/ CopyFinalized
    \/ VerifyQuery \/ VerifyQueryRaises \/ VerifyCheck

\* verify_delivery alone, against a scripted ledger
Stubs == { [kind |-> "never", n |-> 0] } \cup { [kind |-> "after", n |-> n] : n \in 0..MaxN }

InitPoll ==
    /\ rows = <<SUs10>>
    /\ dry_run = FALSE
    /\ verify_imessage = TRUE
    /\ track_link = TRUE /\ message = TemplateLink
    /\ limit = 0
    /\ verify_wait \in (0 - 1)..MaxWait
    /\ verify_timeout \in (0 - 1)..(2 * MaxN + 1)
    /\ pc = "harness" /\ idx = 1 /\ phone = normalize_phone(SUs10)
    /\ msg = RenderedMessage(1, phone)
    /\ processed = 0 /\ sent = 0 /\ failed = 0 /\ sms_sent = 0 /\ sms_failed = 0
    /\ log = <<>>
    /\ vpc = "start" /\ start = 0 /\ undel = TRUE /\ delivered = FALSE
    /\ reads = 0 /\ copies = 0
    /\ now \in {0, 3} /\ readCost \in 0..MaxReadCost
    /\ stub \in Stubs
    /\ events = <<>>
    /\ NoCall

NextPoll == VerifyStart \/ VerifyCopy \/ VerifyQuery \/ VerifyCheck

SpecPoll == InitPoll /\ [][NextPoll]_vars

\* verify_delivery as a sequential function: a step that can be taken is
\* taken (the reads complete and the sleeps end)
SpecPollFair == InitPoll /\ [][NextPoll]_vars /\ WF_vars(NextPoll)

\* normalize_phone alone
ApplyNormalize ==
    /\ fn = ""
    /\ fn' = "normalize_phone"
    /\ ret' = normalize_phone(arg)
    /\ UNCHANGED <<cfgVars, cntVars, pollVars, pc, idx, phone, msg, log, now, readCost, stub, events, arg>>

InitNorm ==
    /\ rows = <<>>
    /\ dry_run = FALSE /\ verify_imessage = FALSE /\ limit = 0
    /\ track_link = FALSE /\ message = TemplateLink
    /\ verify_wait = 0 /\ verify_timeout = 0
    /\ pc = "harness" /\ idx = 1 /\ phone = None /\ msg = NoMessage
    /\ processed = 0 /\ sent = 0 /\ failed = 0 /\ sms_sent = 0 /\ sms_failed = 0
    /\ log = <<>>
    /\ vpc = "idle" /\ start = 0 /\ undel = TRUE /\ delivered = FALSE
    /\ reads = 0 /\ copies = 0
    /\ now = 0 /\ readCost = 0
    /\ stub = [kind |-> "live", n |-> 0]
    /\ events = <<>>
    /\ fn = "" /\ arg \in RawInputs /\ ret = None

NextNorm == ApplyNormalize

SpecNorm == InitNorm /\ [][NextNorm]_vars

\* The ledger check alone, on small ledgers
HExact  == <<"+", "1">> \o SUs10
HLonger == <<"+", "4", "4", "1">> \o SUs10
\* the tables handle of the inputs: none, one or two rows, the phone matched
\* by none, one or both of them
Handles ==
    { <<>>, <<HExact>>, <<SUs10>>, <<HExact, HLonger>>, <<HLonger, HExact>>,
      <<HExact, SUs10>>, <<SUs10, HExact>>, <<SUs10, SUs10>> }

Schemas == SUBSET {"is_delivered", "date_delivered"}

IsDeliveredValues   == {Null, Num(0), Num(1)}
DateDeliveredValues == {Null, Num(0), Num(7)}

\* the delivery fields of a row of message under a schema: any values for a
\* message sent, those of a delivered message for one received; a column the
\* schema lacks holds nothing
DeliveryFields(cols, is_from_me) ==
    [is_delivered   : IF "is_delivered" \notin cols THEN {Null}
                      ELSE IF is_from_me = 1 THEN IsDeliveredValues ELSE {Num(1)},
     date_delivered : IF "date_delivered" \notin cols THEN {Null}
                      ELSE IF is_from_me = 1 THEN DateDeliveredValues ELSE {Num(7)}]

\* the rows of message, their dates left open
MessageRows(cols) ==
    UNION { { [handle_id |-> h, is_from_me |-> f,
               is_delivered |-> d.is_delivered, date_delivered |-> d.date_delivered] :
                 h \in 1..2, d \in DeliveryFields(cols, f) } : f \in {0, 1} }

\* the tables message of at most max rows; the dates ascend with the ROWID,
\* descend with it, or are all the same
Messages(cols, max) ==
    UNION { { [k \in 1..n |->
                 [handle_id |-> m[k].handle_id, is_from_me |-> m[k].is_from_me,
                  date |-> IF order = "ascending" THEN k
                           ELSE IF order = "descending" THEN n + 1 - k ELSE 1,
                  is_delivered |-> m[k].is_delivered,
                  date_delivered |-> m[k].date_delivered]] :
                m \in [1..n -> MessageRows(cols)],
                order \in {"ascending", "descending", "same"} } : n \in 0..max }

Ledgers(max) ==
    UNION { [handle : Handles, message : Messages(cols, max), cols : {cols}] : cols \in Schemas }

ApplyLedgerCheck ==
    /\ fn = ""
    /\ fn' = "ledger_check"
    /\ ret' \in LedgerCheck(arg, phone)
    /\ UNCHANGED <<cfgVars, cntVars, pollVars, pc, idx, phone, msg, log, now, readCost, stub, events, arg>>

InitLedger ==
    /\ rows = <<SUs10>>
    /\ dry_run = FALSE /\ verify_imessage = TRUE /\ limit = 0
    /\ track_link = TRUE /\ message = TemplateLink
    /\ verify_wait = 0 /\ verify_timeout = 0
    /\ pc = "harness" /\ idx = 1 /\ phone = normalize_phone(SUs10)
    /\ msg = RenderedMessage(1, phone)
    /\ processed = 0 /\ sent = 0 /\ failed = 0 /\ sms_sent = 0 /\ sms_failed = 0
    /\ log = <<>>
    /\ vpc = "query" /\ start = 0 /\ undel = TRUE /\ delivered = FALSE
    /\ reads = 0 /\ copies = 1
    /\ now = 0 /\ readCost = 0
    /\ stub = [kind |-> "live", n |-> 0]
    /\ events = <<>>
    /\ fn = "" /\ arg \in Ledgers(MaxMessages) /\ ret = None

NextLedger == ApplyLedgerCheck

SpecLedger == InitLedger /\ [][NextLedger]_vars

\* Link personalization alone, on messages put together from a text before
\* the link, the link and a text after it
Pres  == { <<>>, <<"h", "i", " ">> }
Posts == { <<>>, <<"\r", "\n", "b", "y", "e">>,
           <<" ">> \o THttp \o TSlashes \o <<"b", ".", "i", "o", "/", "?">> \o TCid \o <<"=", "1">> }

Hosts == { <<"a", ".", "i", "o">> }
Paths == { <<>>, <<"/", "p">> }
Fragments == { <<>>, <<"#", "f">> }

ParamKeys   == { <<"x">>, <<"y">>, TCid }
ParamValues == { <<>>, <<"=">>, <<"=", "1">>, <<"=", "2">>, <<"=", "a", "+", "b">>,
                 <<"=", "%", "2", "f">> }

\* one field of a query string; the empty field is what && leaves
Fields == { <<>> } \cup { k \o v : k \in ParamKeys, v \in ParamValues }

\* no query, or ? and at most max fields
Queries(max) ==
    { <<>> } \cup
    UNION { { <<"?">> \o join(f, <<"&">>) : f \in [1..n -> Fields] } : n \in 0..max }

\* the links whose query has at most max fields
Urls(max) ==
    { s \o TSlashes \o h \o p \o q \o f :
        s \in {THttp, THttps}, h \in Hosts, p \in Paths, q \in Queries(max), f \in Fragments }

\* links of other shapes: a host in brackets that is, or is not, an IPv6
\* address; a bracket without its partner; a character in the host that NFKC
\* turns into "a/c"; no host and a path that begins with //; percent codes of
\* a letter, of a character outside the ASCII range and of no character
SpecialUrls ==
    { THttp \o TSlashes \o u :
        u \in { <<"[", ":", ":", "1", "]", "/", "p", "?", "x", "=", "1">>,
                <<"[", "a", "]", "/", "p">>,
                <<"[", "a">>,
                <<"a", "]", "b", "/">>,
                <<"a", Chr(8448), "b", "/", "p">>,
                <<"/", "/", "x">>,
                <<"a", ".", "i", "o", "/", "?", "%", "7", "8", "=", "%", "4", "1">>,
                <<"a", ".", "i", "o", "/", "?", "x", "=", "%", "c", "3", "%", "A", "9">>,
                <<"a", ".", "i", "o", "/", "?", "x", "=", "%", "F", "F", "%", "4">>,
                <<"a", ".", "i", "o", "/", "?", "x", "=", Nbsp, Chr(233)>> } }

\* texts in which the pattern finds no link
NoUrlTexts ==
    { <<>>, <<"h", "i">>, THttps \o TSlashes, THttp \o TSlashes \o <<" ", "a">>,
      <<"H", "T", "T", "P">> \o TSlashes \o <<"a">>, THttp \o <<":", "/", "a">> }

LinkInputs(max) ==
    [pre : Pres, url : Urls(max) \cup SpecialUrls, post : Posts]
        \cup [pre : NoUrlTexts, url : {<<>>}, post : {<<>>}]

MessageOf(a) == a.pre \o a.url \o a.post

ApplyPersonalize ==
    /\ fn = ""
    /\ fn' = "personalize_link_in_message"
    /\ ret' = personalize_link_in_message(MessageOf(arg), phone, TCid)
    /\ UNCHANGED <<cfgVars, cntVars, pollVars, pc, idx, phone, msg, log, now, readCost, stub, events, arg>>

InitLink ==
    /\ rows = <<SUs10>>
    /\ dry_run = FALSE /\ verify_imessage = FALSE /\ limit = 0
    /\ track_link = TRUE /\ message = TemplateLink
    /\ verify_wait = 0 /\ verify_timeout = 0
    /\ pc = "harness" /\ idx = 1 /\ phone = normalize_phone(SUs10) /\ msg = NoMessage
    /\ processed = 0 /\ sent = 0 /\ failed = 0 /\ sms_sent = 0 /\ sms_failed = 0
    /\ log = <<>>
    /\ vpc = "idle" /\ start = 0 /\ undel = TRUE /\ delivered = FALSE
    /\ reads = 0 /\ copies = 0
    /\ now = 0 /\ readCost = 0
    /\ stub = [kind |-> "live", n |-> 0]
    /\ events = <<>>
    /\ fn = "" /\ arg \in LinkInputs(MaxParams) /\ ret = None

NextLink == ApplyPersonalize

SpecLink == InitLink /\ [][NextLink]_vars

----------------------------------------------------------------------------
(* Properties of a run of main() *)

HasEvent(i, op, what) ==
    \E k \in 1..Len(events) :
        events[k].row = i /\ events[k].op = op /\ events[k].what = what

Normalized(i) == HasEvent(i, "normalize", "ok")
Skipped(i)    == HasEvent(i, "normalize", "none")
Delayed(i)    == HasEvent(i, "sleep", "delay")

IsPrefix(a, b) == Len(a) <= Len(b) /\ SubSeq(b, 1, Len(a)) = a

AllowedSequences ==
    { <<"failed", "sms_sent">>, <<"failed", "sms_failed">>, <<"sent">>,
      <<"sent", "sms_sent">>, <<"sent", "sms_failed">> }

\* C1: for every recipient whose phone normalizes, the records appended are
\* [failed, sms_sent] or [failed, sms_failed] (by the fallback's outcome) when
\* the primary send fails; [sent] when it succeeds and verification is off
\* or reports delivered; [sent, sms_sent] or [sent, sms_failed] when it
\* succeeds, verification is on, dry-run is off and verify_delivery reports
\* undelivered.  No other sequence is reachable, and there are as many
\* records as dispatch attempts.
C1_RecordSequences ==
    \A i \in 1..Len(rows) :
        Normalized(i) =>
            LET d  == RowDispatches(i)
                st == RowStatuses(i)
                fb == IF Len(d) >= 2 /\ d[2].ok THEN "sms_sent" ELSE "sms_failed"
            IN  /\ Len(st) = Len(d)
                /\ \E a \in AllowedSequences : IsPrefix(st, a)
                /\ Delayed(i) =>
                     /\ st \in AllowedSequences
                     /\ d[1].what = "imessage"
                     /\ \A k \in 2..Len(d) : d[k].what = "sms"
                     /\ ~d[1].ok => st = <<"failed", fb>>
                     /\ (d[1].ok /\ (~verify_imessage \/ HasEvent(i, "verify", "delivered")))
                            => st = <<"sent">>
                     /\ (d[1].ok /\ dry_run) => st = <<"sent">>
                     /\ (d[1].ok /\ verify_imessage /\ ~dry_run
                               /\ HasEvent(i, "verify", "undelivered"))
                            => st = <<"sent", fb>>

C1_Witness ==
    \E i \in 1..Len(rows) :
        /\ Delayed(i)
        /\ HasEvent(i, "verify", "undelivered")
        /\ RowStatuses(i) = <<"sent", "sms_failed">>

\* C2: a ledger-access error during a poll iteration is treated as an
\* undelivered result; it never escapes verify_delivery and never ends the run.
C2_LedgerErrorNotFatal ==
    \A k \in 1..Len(events) :
        (events[k].op = "read" /\ events[k].what \in {"copy error", "query error"})
            => (vpc # "raised" /\ pc # "crashed")

\* C5: a recipient whose phone does not normalize gets exactly one record,
\* with status failed, no dispatch on either channel and no ledger read, and
\* the loop has moved past it.
C5_UnnormalizableRow ==
    \A i \in 1..Len(rows) :
        (rows[i] = S12 /\ (i < idx \/ RowEvents(i) # <<>>)) =>
            /\ RowStatuses(i) = <<"failed">>
            /\ RowDispatches(i) = <<>>
            /\ RowReads(i) = <<>>
            /\ ~HasEvent(i, "verify", "begin")
            /\ idx > i

C5_Witness ==
    /\ pc = "done"
    /\ \E i \in 1..Len(rows) : Skipped(i) /\ RowStatuses(i) = <<"failed">>
    /\ \E i \in 1..Len(rows) : Normalized(i)

HandledRows == {i \in 1..Len(rows) : RowEvents(i) # <<>>}

\* C10: at the end of a run processed is the number of rows handled, sent,
\* sms_sent and sms_failed are the numbers of records of that status, failed
\* is the number of rows that did not normalize, and the log holds
\* processed + sms_sent + sms_failed records; an invalid row, a delivered row
\* and a row whose primary send fails and whose fallback succeeds give
\* 3, 1, 1, 1, 0 and 4 records.
C10_Counters ==
    pc = "done" =>
        /\ processed = Cardinality(HandledRows)
        /\ sent = CountStatus("sent")
        /\ sms_sent = CountStatus("sms_sent")
        /\ sms_failed = CountStatus("sms_failed")
        /\ failed = Cardinality({i \in HandledRows : Skipped(i)})
        /\ Len(log) = processed + sms_sent + sms_failed
        /\ ( /\ Len(rows) = 3 /\ limit = 0
             /\ Cardinality({i \in 1..3 : rows[i] = S12}) = 1
             /\ Cardinality({i \in 1..3 : Normalized(i) /\ RowDispatches(i)[1].ok
                                          /\ ~HasEvent(i, "verify", "undelivered")}) = 1
             /\ Cardinality({i \in 1..3 : Normalized(i) /\ ~RowDispatches(i)[1].ok
                                          /\ RowDispatches(i)[2].ok}) = 1 )
           => ( /\ processed = 3 /\ failed = 1 /\ sent = 1
                /\ sms_sent = 1 /\ sms_failed = 0 /\ Len(log) = 4 )

C10_Witness ==
    /\ pc = "done"
    /\ Len(rows) = 3 /\ rows[1] = S12
    /\ HasEvent(2, "verify", "delivered")
    /\ RowStatuses(3) = <<"failed", "sms_sent">>
    /\ processed = 3 /\ failed = 1 /\ sent = 1 /\ sms_sent = 1 /\ sms_failed = 0
    /\ Len(log) = 4

\* the operations main() performed for row i, in order
RowOps(i) ==
    LET e == RowEvents(i)
    IN  [k \in 1..Len(e) |-> e[k].op]

AllDispatchesOk(i) ==
    LET d == RowDispatches(i)
    IN  \A k \in 1..Len(d) : d[k].ok

\* C8 (as claimed): after every recipient, a skipped one included, the
\* inter-recipient delay is slept before the next recipient begins, and it is
\* the last thing done for the recipient.
C8_DelayAfterEveryRecipient ==
    \A i \in 1..Len(rows) :
        /\ (i < Len(rows) /\ RowEvents(i + 1) # <<>>) => Delayed(i)
        /\ Delayed(i) => IsDelay(RowEvents(i)[Len(RowEvents(i))])

\* C9 (as claimed): a dry run branches as a real run whose sends all succeed:
\* whenever verification is enabled the recipient goes through verification,
\* in a dry run as in a real one.
C9_DryRunSameBranches ==
    \A i \in 1..Len(rows) :
        (Normalized(i) /\ Delayed(i) /\ AllDispatchesOk(i))
            => (verify_imessage <=> HasEvent(i, "verify", "begin"))

\* C9 (amended): a dry run branches as a real run whose sends all succeed only
\* when verification is disabled: both then do normalize, dispatch, log, delay
\* and append [sent].  With verification enabled the real run verifies (at
\* least one ledger read) while the dry run skips verification and the
\* fallback decision and appends only [sent]; no dispatch of a dry run acts.
C9_DryRunBranches ==
    \A i \in 1..Len(rows) :
        (Normalized(i) /\ Delayed(i) /\ AllDispatchesOk(i)) =>
            /\ (~verify_imessage \/ dry_run) =>
                  /\ RowOps(i) = <<"normalize", "dispatch", "log", "sleep">>
                  /\ RowStatuses(i) = <<"sent">>
                  /\ RowReads(i) = <<>>
            /\ (verify_imessage /\ ~dry_run) =>
                  /\ IsPrefix(<<"normalize", "dispatch", "log", "verify">>, RowOps(i))
                  /\ Len(RowReads(i)) >= 1
                  /\ RowStatuses(i) \in {<<"sent">>, <<"sent", "sms_sent">>}
            /\ \A k \in 1..Len(RowDispatches(i)) : RowDispatches(i)[k].dry = dry_run

C9_Witness ==
    \E i \in 1..Len(rows) :
        /\ dry_run /\ verify_imessage
        /\ Normalized(i) /\ Delayed(i)
        /\ RowStatuses(i) = <<"sent">>

----------------------------------------------------------------------------
(* Properties of normalize_phone *)

AllDigits(s) == s # None /\ \A i \in 1..Len(s) : IsDigit(s[i])

Applied == fn = "normalize_phone"

\* C3 (as claimed): "12", "abc" and "0123456789" have no canonical identity.
C3_InvalidInputs ==
    (Applied /\ arg \in {S12, Sabc, S0123456789}) => ret = None

\* C3 (amended): "12" and "abc" have no canonical identity; "0123456789" is
\* ten digits and normalizes to "+10123456789".
C3_InvalidInputsAmended ==
    Applied =>
        /\ arg \in {S12, Sabc} => ret = None
        /\ arg = S0123456789 => ret = <<"+", "1">> \o S0123456789

C3_Witness == Applied /\ arg = S0123456789 /\ ret # None

\* C4 (as claimed): ten digits give "+1" and the digits; eleven digits
\* starting with 1 give "+" and the digits; an input that without its
\* whitespace is "+" and 8 to 20 digits gives the input without whitespace.
C4_NormalizationRules ==
    (Applied /\ arg # None) =>
        /\ (AllDigits(arg) /\ Len(arg) = 10) => ret = <<"+", "1">> \o arg
        /\ (AllDigits(arg) /\ Len(arg) = 11 /\ arg[1] = "1") => ret = <<"+">> \o arg
        /\ MatchPlusDigits(SelectSeq(arg, NotSpace)) => ret = SelectSeq(arg, NotSpace)

----------------------------------------------------------------------------
(* Properties of verify_delivery against a scripted ledger *)

Returned == vpc = "returned"

\* C6: a ledger undelivered for the first N reads and delivered afterwards,
\* initial_wait = 0, interval = 1 s, deadline = N + 0.5 s, reads taking no
\* time: verify_delivery returns true after exactly N + 1 reads.
C6_DeliveredAfterN ==
    (Returned /\ stub.kind = "after" /\ verify_wait = 0 /\ readCost = 0
              /\ verify_timeout = 2 * stub.n + 1)
        => (delivered /\ reads = stub.n + 1)

C6_Witness ==
    /\ Returned /\ stub.kind = "after" /\ stub.n = 3
    /\ verify_wait = 0 /\ readCost = 0 /\ verify_timeout = 7
    /\ delivered /\ reads = 4

\* C7 (as claimed): a ledger that never reports delivered, initial_wait = 0,
\* any deadline >= 0, whatever time a read takes: verify_delivery returns
\* false, no earlier than the deadline and no later than the deadline plus the
\* 1 s interval.
C7_FalseWithinInterval ==
    (Returned /\ stub.kind = "never" /\ verify_wait = 0 /\ verify_timeout >= 0)
        => /\ ~delivered
           /\ now - start >= verify_timeout
           /\ now - start <= verify_timeout + PollInterval

\* C7 (amended): a ledger that never reports delivered, initial_wait = 0, any
\* deadline >= 0: verify_delivery returns false, no earlier than the deadline
\* and no later than the deadline plus the 1 s interval plus the time one
\* read of the ledger takes; with reads taking no time, no later than the
\* deadline plus the interval.
C7_FalseAtDeadline ==
    (Returned /\ stub.kind = "never" /\ verify_wait = 0 /\ verify_timeout >= 0)
        => /\ ~delivered
           /\ now - start >= verify_timeout
           /\ now - start <= verify_timeout + PollInterval + readCost

\* reads of 1 s and a deadline of 1.5 s: the first read ends at 1 s, before
\* the deadline, and the second at 3 s, later than the deadline plus 1 s
C7_Witness ==
    /\ Returned /\ stub.kind = "never"
    /\ verify_wait = 0 /\ readCost = 2 /\ verify_timeout = 3
    /\ ~delivered /\ now - start = 6 /\ reads = 2

----------------------------------------------------------------------------
(* Further properties of a run of main() *)

Min(a, b) == IF a <= b THEN a ELSE b

\* the rows a finished run has to handle
RowsDue == IF limit = 0 THEN Len(rows) ELSE Min(limit, Len(rows))

\* C11: with a row limit L the loop handles exactly the first min(L, total)
\* rows, in input order: processed never exceeds L and nothing (normalization,
\* dispatch, ledger read, record) happens for a row beyond the limit; with no
\* limit (0) every row is handled.
C11_RowLimit ==
    LET handled == HandledRows
    IN  /\ limit > 0 => processed <= limit
        /\ \A k \in 1..Len(events) : limit > 0 => events[k].row <= limit
        /\ handled = 1..Cardinality(handled)
        /\ processed = Cardinality(handled)
        /\ pc = "done" => handled = 1..RowsDue

C11_Witness ==
    /\ pc = "done"
    /\ limit = 2 /\ Len(rows) = 3
    /\ processed = 2 /\ HandledRows = {1, 2}

\* C12 (as claimed): whatever the dispatches return and whichever rows do not
\* normalize, the run goes on until its final summary (it is never stuck
\* before it) with every row within the limit handled, and a failed primary
\* send is followed by exactly the fallback send.
C12_RunReachesSummary ==
    /\ pc # "done" => (RowUsable \/ ENABLED NextAfterRendering)
    /\ pc = "done" => HandledRows = 1..RowsDue
    /\ \A i \in 1..Len(rows) :
          (Normalized(i) /\ Delayed(i) /\ ~RowDispatches(i)[1].ok)
              => (Len(RowDispatches(i)) = 2 /\ RowDispatches(i)[2].what = "sms")

\* the rows the loop has reached: no later row has an event
RowsBegun == 1..Min(idx, Len(rows))

\* a poll of the ledger is in progress
PollActive == vpc \in {"start", "copy", "query", "check", "returned"}

\* the position in RowEvents(i) of its first event with this op and what, or 0
FirstAt(i, op, what) ==
    LET e == RowEvents(i)
        S == {k \in 1..Len(e) : e[k].op = op /\ e[k].what = what}
    IN  IF S = {} THEN 0 ELSE CHOOSE k \in S : \A j \in S : k <= j

LoggedStatuses ==
    LET l == SelectSeq(events, IsLog)
    IN  [k \in 1..Len(l) |-> l[k].what]

\* C17: the run is serialized: the events of the run are grouped by recipient
\* in input order, a poll runs only while main waits for it (so at most one
\* poll, and at most one copy, at a time), each ledger read of a recipient
\* lies between the begin and the end of that recipient's verification, and
\* the log holds the records in the order of the events, primary record
\* before fallback record.
C17_Serialized ==
    /\ \A k \in 1..(Len(events) - 1) : events[k].row <= events[k + 1].row
    /\ \A k \in 1..Len(events) : events[k].row <= idx
    /\ PollActive => pc = "verify"
    /\ vpc = "raised" => pc = "crashed"
    /\ copies <= 1
    /\ [k \in 1..Len(log) |-> log[k].status] = LoggedStatuses
    /\ \A i \in RowsBegun :
          LET e  == RowEvents(i)
              b  == FirstAt(i, "verify", "begin")
              st == RowStatuses(i)
          IN  /\ \A k \in 1..Len(e) :
                    (e[k].op = "read" \/ (e[k].op = "sleep" /\ e[k].what # "delay"))
                        => /\ b # 0 /\ b < k
                           /\ \A j \in 1..k : ~(e[j].op = "verify" /\ e[j].what # "begin")
              /\ \A k \in 1..Len(st) :
                    IF k = 1 THEN st[k] \in {"sent", "failed"}
                    ELSE k = 2 /\ st[k] \in {"sms_sent", "sms_failed"}

C17_Witness ==
    /\ idx = 2 /\ pc = "verify" /\ vpc = "check"
    /\ Len(RowReads(1)) >= 1
    /\ RowStatuses(1) \in {<<"sent", "sms_sent">>, <<"sent", "sms_failed">>}
    /\ RowReads(2) # <<>>

\* C18: a recipient gets at most one primary and at most one fallback
\* dispatch; the fallback comes after the primary returned, right after the
\* failed record of the primary or right after verify_delivery returned false,
\* with the same phone and the same rendered message; nothing is dispatched
\* for the recipient after it.  The message of the primary dispatch is the
\* one rendered for the row, msg while the row is the current one.
C18_OneFallback ==
    \A i \in RowsBegun :
        LET e == RowEvents(i)
            d == SelectSeq(e, IsDispatch)
        IN  /\ Len(d) <= 2
            /\ Len(d) >= 1 =>
                  /\ d[1].what = "imessage"
                  /\ d[1].phone = normalize_phone(rows[i])
                  /\ i = idx => (d[1].msg = msg /\ msg # NoMessage)
            /\ Len(d) = 2 =>
                  /\ d[2].what = "sms"
                  /\ d[2].phone = d[1].phone
                  /\ d[2].msg = d[1].msg
            /\ \A k \in 1..Len(e) :
                  (e[k].op = "dispatch" /\ e[k].what = "sms") =>
                      /\ k > 1
                      /\ \/ e[k - 1].op = "log" /\ e[k - 1].what = "failed" /\ ~d[1].ok
                         \/ e[k - 1].op = "verify" /\ e[k - 1].what = "undelivered" /\ d[1].ok

C18_Witness ==
    /\ pc = "done"
    /\ \E i, j \in 1..Len(rows) :
          /\ Len(RowDispatches(i)) = 2 /\ ~RowDispatches(i)[1].ok /\ ~RowDispatches(i)[2].ok
          /\ Len(RowDispatches(j)) = 2 /\ RowDispatches(j)[1].ok

\* main is inside verify_delivery for the current row, or was interrupted there
MidVerification == pc = "verify" \/ (pc = "crashed" /\ vpc = "raised")

\* C19: the sent record is in the log before verification begins: while the
\* poll of a recipient runs, and when the run is interrupted inside it, the
\* log holds exactly the sent record of that recipient (no fallback record),
\* and the begin of the verification, its waits and its ledger reads all come
\* after that record.
C19_SentLoggedBeforeVerification ==
    /\ MidVerification =>
          /\ RowStatuses(idx) = <<"sent">>
          /\ log # <<>>
          /\ log[Len(log)] = log_row(phone, "sent", <<"sent">>, msg)
    /\ \A i \in RowsBegun :
          LET e == RowEvents(i)
              s == FirstAt(i, "log", "sent")
          IN  \A k \in 1..Len(e) :
                  (e[k].op \in {"verify", "read"} \/ (e[k].op = "sleep" /\ e[k].what # "delay"))
                      => (s # 0 /\ s < k)

C19_Witness ==
    /\ pc = "crashed" /\ vpc = "raised"
    /\ reads >= 1
    /\ RowStatuses(idx) = <<"sent">>

\* C14 (as claimed): every copy of the ledger is deleted before the iteration
\* that made it ends, on every exit path: a copy exists only between the copy
\* and the end of the queries of one iteration, there is never more than one,
\* and the queries of an iteration read the copy made in that iteration.
C14_CopyDeletedInIteration ==
    /\ copies <= 1
    /\ vpc = "query" => copies = 1
    /\ vpc # "query" => copies = 0

\* the verdicts of the ledger reads made so far, in order
ReadVerdicts ==
    LET r == SelectSeq(events, IsRead)
    IN  [k \in 1..Len(r) |-> r[k].what]

\* what holds of a call of verify_delivery at every moment
PollSafety ==
    /\ reads = Len(ReadVerdicts)
    \* only the last read can have reported delivered
    /\ \A k \in 1..(reads - 1) : ReadVerdicts[k] = "undelivered"
    \* the loop goes on only after an undelivered read that ended before the
    \* deadline
    /\ (vpc \in {"copy", "query"} /\ reads >= 1) =>
          /\ ReadVerdicts[reads] = "undelivered"
          /\ (now - PollInterval) - start < verify_timeout
    /\ Returned =>
          /\ reads >= 1
          /\ delivered = (ReadVerdicts[reads] = "delivered")
          /\ ~delivered => now - start >= verify_timeout
    \* the time slept at line 156 counts as elapsed
    /\ vpc \in {"copy", "query", "check", "returned"} =>
          now - start >= Max(0, verify_wait) + reads * readCost

\* C20: when every read completes and time advances, verify_delivery returns,
\* for every initial wait and deadline; it has then read the ledger at least
\* once, returns true at the first read that reports delivered, otherwise
\* false at the first read that ends at or past the deadline (the initial
\* wait included in the elapsed time), and reads nothing after it returned.
C20_PollTerminates ==
    /\ <>Returned
    /\ []PollSafety
    /\ [][Returned => (Returned' /\ reads' = reads)]_vars

C20_Witness ==
    /\ Returned /\ ~delivered
    /\ verify_wait = 2 /\ verify_timeout = 0 - 1
    /\ reads = 1

----------------------------------------------------------------------------
(* The ledger check *)

Checked == fn = "ledger_check"

\* the ROWIDs of the handles whose digits end with the digits of the phone
Matching(db) ==
    {h \in 1..Len(db.handle) : endswith(digits_only(db.handle[h]), digits_only(phone))}

Greatest(S) == CHOOSE k \in S : \A j \in S : j <= k

\* the outgoing messages to handle h, and the latest of them: those of the
\* greatest date
Outgoing(db, h) ==
    {k \in 1..Len(db.message) : db.message[k].is_from_me = 1 /\ db.message[k].handle_id = h}

Latest(db, h) ==
    {k \in Outgoing(db, h) :
        \A j \in Outgoing(db, h) : db.message[j].date <= db.message[k].date}

\* the decision the spec gives for message k of the ledger
UndeliveredBySpec(db, k) ==
    \/ "is_delivered" \in db.cols /\ db.message[k].is_delivered = Num(0)
    \/ "date_delivered" \in db.cols /\ db.message[k].date_delivered \in {Null, Num(0)}
    \/ db.cols = {}

\* C15: the check finds no identity exactly when no handle's digits end with
\* the digits of the phone, and is then undelivered; otherwise the handle
\* chosen is the matching one with the greatest ROWID and the decision is
\* that of its latest outgoing message (of one of them when several have the
\* greatest date).
C15_HandleChosen ==
    Checked =>
        /\ (ret.hid = Null) = (Matching(arg) = {})
        /\ ret.hid = Null => ret.undel
        /\ ret.hid # Null =>
              LET h == Greatest(Matching(arg))
              IN  /\ ret.hid = Num(h)
                  /\ IF Outgoing(arg, h) = {} THEN ret.row = Null
                     ELSE /\ ret.row # Null
                          /\ ret.row[1][1] \in Latest(arg, h)
                          /\ ret.undel = UndeliveredBySpec(arg, ret.row[1][1])

C15_Witness ==
    /\ Checked
    /\ arg.handle = <<HExact, HLonger>>
    /\ Matching(arg) = {1, 2} /\ ret.hid = Num(2)
    /\ Outgoing(arg, 1) # {} /\ Outgoing(arg, 2) # {}
    /\ \A k \in Latest(arg, 1) : ret.undel # UndeliveredBySpec(arg, k)

\* C16: for a matched identity the decision is undelivered exactly when there
\* is no outgoing message to it, or is_delivered is in the schema and 0, or
\* date_delivered is in the schema and NULL or 0, or neither column is in the
\* schema; otherwise delivered.  Every schema gives a decision.  The fields
\* are those of the latest outgoing message, of one of them when several have
\* the greatest date.
C16_Decision ==
    Checked =>
        /\ ret.undel \in BOOLEAN
        /\ ret.hid # Null =>
              LET h == ret.hid[1]
              IN  \/ Outgoing(arg, h) = {} /\ ret.undel
                  \/ \E k \in Latest(arg, h) :
                        ret.row # Null /\ ret.row[1] = Num(k)
                            /\ ret.undel = UndeliveredBySpec(arg, k)

C16_Witness ==
    /\ Checked /\ ret.hid # Null
    /\ arg.cols = {"is_delivered", "date_delivered"}
    /\ ret.row # Null
    /\ ret.row[4] = Num(1) /\ ret.row[5] = Num(0)
    /\ ret.undel

----------------------------------------------------------------------------
(* Link personalization *)

Personalized == fn = "personalize_link_in_message"

\* the decoded (name, value) occurrences in the query of a URL
QueryPairs(url) == parse_qsl(urlparse(url).query)

\* how often the pair p occurs in the sequence q
Occurrences(q, p) == Cardinality({i \in 1..Len(q) : q[i] = p})

\* the rewritten link: what stands in ret between the text before and the
\* text after the link
NewUrl == SubSeq(ret, Len(arg.pre) + 1, Len(ret) - Len(arg.post))

\* C13 (as claimed): a message without a link is returned unchanged; in a
\* message with a link only the first link is altered, the text before and
\* after it (a later link included) is kept, the rewritten link has the
\* parameter cid exactly once with the digits of the phone as its value, and
\* every other parameter of the link is kept, occurrence by occurrence.  The
\* function returns: it raises nothing.
C13_LinkPersonalized ==
    Personalized =>
        IF arg.url = <<>> THEN ret = MessageOf(arg)
        ELSE /\ ret # ValueError
             /\ Len(ret) >= Len(arg.pre) + Len(arg.post)
             /\ SubSeq(ret, 1, Len(arg.pre)) = arg.pre
             /\ From(ret, Len(ret) - Len(arg.post) + 1) = arg.post
             /\ \A i \in 1..Len(NewUrl) : NotSpace(NewUrl[i])
             /\ urlparse(NewUrl).netloc = urlparse(arg.url).netloc
             /\ urlparse(NewUrl).path = urlparse(arg.url).path
             /\ Occurrences(QueryPairs(NewUrl), <<TCid, digits_only(phone)>>) = 1
             /\ \A i \in 1..Len(QueryPairs(NewUrl)) :
                   QueryPairs(NewUrl)[i][1] = TCid
                       => QueryPairs(NewUrl)[i][2] = digits_only(phone)
             /\ \A i \in 1..Len(QueryPairs(arg.url)) :
                   LET p == QueryPairs(arg.url)[i]
                   IN  p[1] # TCid =>
                         Occurrences(QueryPairs(NewUrl), p) = Occurrences(QueryPairs(arg.url), p)

====
